---------------------------- MODULE Spec2Model ----------------------------
(***************************************************************************)
(* A model of src/src/Matrix.cpp (dvisvgm): the 3x3 matrix type with its   *)
(* composition operations, and the transformation-directive parser         *)
(* Matrix::parse with its helper getArgument.                              *)
(*                                                                         *)
(* Numbers.  The source computes in double precision.  The model computes  *)
(* with exact integers: every numeral of the input is an integer, angles   *)
(* are restricted to the multiples of 45 degrees (skew) and 90 degrees     *)
(* (rotation) where tan, cos and sin are integers, and variable values are *)
(* chosen so that w/2 and h/2 are integers.  cos(deg2rad(90)) is 6.1e-17   *)
(* in double precision, which is below machine epsilon; the model has 0.   *)
(*                                                                         *)
(* Input.  The directive string is a character stream.  A numeral is one   *)
(* token of the stream (it stands for its run of digits, none of which is  *)
(* an upper-case letter, a comma or a blank).  The stream is revealed one  *)
(* token at a time by the action Feed; peek and get follow the iostream    *)
(* rules for eofbit and failbit.                                           *)
(***************************************************************************)
EXTENDS Integers, Sequences, FiniteSets, TLC

\* ------------------------------------------------------------------ bounds
\* The longest input, in tokens, the environment supplies.
MaxInput == 6
\* The tokens by which an input that is a single M directive may be longer.
MatrixExtra == 6
\* The most tokens of one argument's expression text taken from the input.
MaxExpr == 2
\* The most blanks in one input.
MaxBlanks == 1
\* The most algebra operations applied to one constructed matrix.
MaxOps == 2

\* ------------------------------------------------------------- the algebra
Idx == 0..2

Min(a, b) == IF a < b THEN a ELSE b

\* Matrix::Matrix(double d)
MatrixD(d) == [i \in Idx |-> [j \in Idx |-> IF i = j THEN d ELSE 0]]

SetValues_fill3(v) ==
    LET size == Min(Len(v), 9)
    IN  [i \in Idx |-> [j \in Idx |->
            LET k == 3 * i + j
            IN  IF k < size THEN v[k + 1]
                ELSE IF k % 3 # 0 THEN 0 ELSE 1]]

\* Matrix::set(v, size): row-major fill, the rest from the identity pattern.
SetValues(v) ==
    LET size == Min(Len(v), 9)
    IN  [i \in Idx |-> [j \in Idx |->
            LET k == 3 * i + j
            IN  IF k < size THEN v[k + 1]
                ELSE IF k % 4 # 0 THEN 0 ELSE 1]]

Identity == MatrixD(1)

\* cos(deg2rad(deg)), sin(deg2rad(deg)): exact at the multiples of 90.
CosDeg(deg) ==
    CASE deg % 360 = 0   -> 1
      [] deg % 360 = 90  -> 0
      [] deg % 360 = 180 -> -1
      [] deg % 360 = 270 -> 0

SinDeg(deg) ==
    CASE deg % 360 = 0   -> 0
      [] deg % 360 = 90  -> 1
      [] deg % 360 = 180 -> 0
      [] deg % 360 = 270 -> -1

\* tan(deg2rad(deg)): exact at the multiples of 45 that have a tangent.
TanDeg(deg) ==
    CASE deg % 180 = 0   -> 0
      [] deg % 180 = 45  -> 1
      [] deg % 180 = 135 -> -1

\* fabs(cos(deg2rad(a))) <= numeric_limits<double>::epsilon()
CosIsZero(deg) == deg % 180 = 90

TranslationMatrix(tx, ty) == SetValues(<<1, 0, tx, 0, 1, ty>>)

ScalingMatrix(sx, sy) == SetValues(<<sx, 0, 0, 0, sy>>)

RotationMatrix_cw(deg) ==
    SetValues(<<CosDeg(deg), SinDeg(deg), 0, -SinDeg(deg), CosDeg(deg)>>)

RotationMatrix(deg) ==
    SetValues(<<CosDeg(deg), -SinDeg(deg), 0, SinDeg(deg), CosDeg(deg)>>)

\* The standard matrix product a * b: cell (i,j) is the sum of a[i][k]*b[k][j].
MatMul(a, b) ==
    [i \in Idx |-> [j \in Idx |->
        a[i][0] * b[0][j] + a[i][1] * b[1][j] + a[i][2] * b[2][j]]]

\* Matrix::lmultiply: ret starts as Matrix() (all zero) and accumulates
\* values[i][k] * tm.values[k][j].
lmultiply(m, tm) ==
    [i \in Idx |-> [j \in Idx |->
        0 + m[i][0] * tm[0][j] + m[i][1] * tm[1][j] + m[i][2] * tm[2][j]]]

rmultiply_swapped(m, tm) ==
    [i \in Idx |-> [j \in Idx |->
        0 + m[i][0] * tm[0][j] + m[i][1] * tm[1][j] + m[i][2] * tm[2][j]]]

\* Matrix::rmultiply: ret starts as Matrix() (all zero) and accumulates
\* tm.values[i][k] * values[k][j].
rmultiply(m, tm) ==
    [i \in Idx |-> [j \in Idx |->
        0 + tm[i][0] * m[0][j] + tm[i][1] * m[1][j] + tm[i][2] * m[2][j]]]

translate(m, tx, ty) ==
    IF tx # 0 \/ ty # 0 THEN rmultiply(m, TranslationMatrix(tx, ty)) ELSE m

scale(m, sx, sy) ==
    IF sx # 1 \/ sy # 1 THEN rmultiply(m, ScalingMatrix(sx, sy)) ELSE m

rotate(m, deg) == rmultiply(m, RotationMatrix(deg))

xskew(m, deg) ==
    LET t == TanDeg(deg)
    IN  IF t # 0 THEN rmultiply(m, SetValues(<<1, t>>)) ELSE m

yskew(m, deg) ==
    LET t == TanDeg(deg)
    IN  IF t # 0 THEN rmultiply(m, SetValues(<<1, 0, 0, t>>)) ELSE m

flip(m, haxis, a) ==
    LET s == IF haxis THEN -1 ELSE 1
        v == << -s, 0, (IF haxis THEN 0 ELSE 2 * a),
                0, s, (IF haxis THEN 2 * a ELSE 0), 0, 0, 1>>
    IN  rmultiply(m, SetValues(v))

transpose(m) == [i \in Idx |-> [j \in Idx |-> m[j][i]]]

\* Matrix::operator*(DPair): rows 0 and 1 applied to (x, y, 1).
Apply(m, p) ==
    << m[0][0] * p[1] + m[0][1] * p[2] + m[0][2] * 1,
       m[1][0] * p[1] + m[1][1] * p[2] + m[1][2] * 1 >>

\* Matrix::operator==: rows 0 and 1 only.
Equals(a, b) == \A i \in 0..1 : \A j \in Idx : a[i][j] = b[i][j]

ThirdRow(m) == <<m[2][0], m[2][1], m[2][2]>>


\* ------------------------------------------------------- the input stream
Commands == {"T", "S", "R", "F", "K", "M"}
Upper == Commands \cup {"H", "V", "X", "Y", "Z"}
Numerals == {"0", "2", "3", "45", "90", "180", "270"}

NumVal(tok) ==
    CASE tok = "0"  -> 0
      [] tok = "2"  -> 2
      [] tok = "3"  -> 3
      [] tok = "45" -> 45
      [] tok = "90" -> 90
      [] tok = "180" -> 180
      [] tok = "270" -> 270

\* isupper, isspace; both are false of the end-of-file value.
IsUpper(c) == c \in Upper
IsSpace(c) == c = " "

\* A fresh istringstream: nothing revealed yet ("?"), goodbit.
NewStream == [la |-> "?", eof |-> FALSE, fail |-> FALSE]

\* istream::peek: on a stream that is not good the sentry sets failbit and
\* peek returns EOF; at the end of the input peek sets eofbit.
Peek(s) ==
    IF s.eof \/ s.fail THEN [c |-> "EOF", s |-> [s EXCEPT !.fail = TRUE]]
    ELSE IF s.la = "EOF" THEN [c |-> "EOF", s |-> [s EXCEPT !.eof = TRUE]]
    ELSE [c |-> s.la, s |-> s]

\* istream::get: as peek, but it consumes the character, and at the end of
\* the input it sets eofbit and failbit.
Get(s) ==
    IF s.eof \/ s.fail THEN [c |-> "EOF", s |-> [s EXCEPT !.fail = TRUE]]
    ELSE IF s.la = "EOF"
         THEN [c |-> "EOF", s |-> [s EXCEPT !.eof = TRUE, !.fail = TRUE]]
    ELSE [c |-> s.la, s |-> [s EXCEPT !.la = "?"]]

\* --------------------------------------------------------- the calculator
\* The calculator handed to parse: its variables are all defined or all
\* undefined; strict says whether getVariable fails on an undefined name or
\* returns 0.
CalcConfigs ==
    { [defined |-> TRUE, strict |-> FALSE],
      [defined |-> FALSE, strict |-> FALSE],
      [defined |-> FALSE, strict |-> TRUE] }

VarValue(name) ==
    CASE name = "ux" -> 1
      [] name = "w"  -> 2
      [] name = "uy" -> 2
      [] name = "h"  -> 4

\* Calculator::getVariable
GetVariable(c, name) ==
    IF c.defined THEN [ok |-> TRUE, val |-> VarValue(name)]
    ELSE IF c.strict THEN [ok |-> FALSE, val |-> 0]
    ELSE [ok |-> TRUE, val |-> 0]

\* Calculator::eval on the expression text: blanks and the end-of-file
\* character that getArgument appends at the end of the input are ignored;
\* one numeral is its value, anything else is an evaluation error.
Eval(text) ==
    LET nums == SelectSeq(text, LAMBDA t : t \in Numerals)
    IN  IF Len(nums) = 1 THEN [ok |-> TRUE, val |-> NumVal(nums[1])]
        ELSE [ok |-> FALSE, val |-> 0]

\* ---------------------------------------------- parse: the call sites
\* The number of getArgument calls of a directive.
NumArgs(c) ==
    CASE c \in {"T", "S"} -> 2
      [] c = "R" -> 3
      [] c \in {"F", "K"} -> 1
      [] c = "M" -> 6

DefaultLookups_lazy(c, i) == {}

\* The variables whose lookup is part of the call's default expression.
DefaultLookups(c, i) ==
    IF c = "R" /\ i = 1 THEN {"ux", "w"}
    ELSE IF c = "R" /\ i = 2 THEN {"uy", "h"}
    ELSE {}

ArgDefault_zero(c, i, v, cal) == 0

\* The argument def of the call for argument i of directive c; v holds the
\* values of the directive's earlier arguments.
ArgDefault(c, i, v, cal) ==
    CASE c = "T" -> 0
      [] c = "S" -> IF i = 0 THEN 1 ELSE v[1]
      [] c = "R" -> IF i = 0 THEN 0
                    ELSE IF i = 1
                    THEN GetVariable(cal, "ux").val + GetVariable(cal, "w").val \div 2
                    ELSE GetVariable(cal, "uy").val + GetVariable(cal, "h").val \div 2
      [] c \in {"F", "K"} -> 0
      [] c = "M" -> IF i % 4 # 0 THEN 0 ELSE 1

ArgOptional_never(c, i) == FALSE

\* The argument optional of the call.
ArgOptional(c, i) ==
    CASE c \in {"T", "S", "R"} -> i # 0
      [] c \in {"F", "K"} -> FALSE
      [] c = "M" -> i # 0

\* The argument leadingComma of the call.
ArgLeadingComma(c, i) ==
    CASE c \in {"T", "S", "R"} -> i # 0
      [] c \in {"F", "K"} -> FALSE
      [] c = "M" -> i # 0

\* ------------------------------------------------------------------- state
VARIABLES
    M,          \* the matrix object's values
    pc,         \* "ready", or the position inside parse
    err,        \* the exception parse ended with, "none" if none
    is,         \* the input stream: revealed character, eofbit, failbit
    fed,        \* the number of input tokens revealed so far
    nblanks,    \* the number of blanks among them
    calc,       \* the calculator handed to parse
    cmd,        \* parse: the command character of the current directive
    sub,        \* parse: the second character of an F or K directive
    argi,       \* parse: the index of the current argument
    vals,       \* parse: the values of the directive's arguments so far
    given,      \* history: for each of them, whether its text was not empty
    looked,     \* history: the variables looked up for this directive
    def,        \* getArgument: parameter def
    optional,   \* getArgument: parameter optional
    leadingComma, \* getArgument: parameter leadingComma
    expr,       \* getArgument: the expression text
    lastRead,   \* history: how the last getArgument call ended
    log,        \* history: the directives applied so far
    lastOp,     \* history: the last algebra operation
    Mold,       \* history: the matrix before it
    tmArg,      \* history: the matrix argument of the last l/rmultiply
    nops,       \* history: the number of algebra operations applied
    affine      \* history: built without diagonal(d # 1) and transpose

vars == <<M, pc, err, is, fed, nblanks, calc, cmd, sub, argi, vals, given,
          looked, def, optional, leadingComma, expr, lastRead, log,
          lastOp, Mold, tmArg, nops, affine>>

parseVars == <<err, is, fed, nblanks, calc, cmd, sub, argi, vals, given,
               looked, def, optional, leadingComma, expr, lastRead, log>>

argVars == <<def, optional, leadingComma, expr>>

histVars == <<lastOp, Mold, tmArg, nops, affine>>

NoRead == [idx |-> -1, required |-> FALSE, comma |-> FALSE,
           text |-> <<>>, result |-> "none"]

\* ------------------------------------------------------------ construction
DiagVals == {0, 1, 2}
AlgVals == {0, 2}
ScaleVals == {1, 2}
RotDegs == {0, 90}
SkewDegs == {0, 45}
ValueLists == { <<>>, <<2>>, <<1, 1>>, <<1, 0, 0, 1>>, <<2, 0, 3, 0, 2, 3>> }

\* The matrices the constructors build; affine records whether the
\* constructor is other than Matrix(d) with d # 1.
Constructed ==
    { [m |-> MatrixD(d), affine |-> (d = 1)] : d \in DiagVals }
    \cup { [m |-> SetValues(v), affine |-> TRUE] : v \in ValueLists }
    \cup { [m |-> TranslationMatrix(t[1], t[2]), affine |-> TRUE] :
             t \in AlgVals \X AlgVals }
    \cup { [m |-> ScalingMatrix(t[1], t[2]), affine |-> TRUE] :
             t \in ScaleVals \X ScaleVals }
    \cup { [m |-> RotationMatrix(d), affine |-> TRUE] : d \in RotDegs }

\* The matrices handed to lmultiply and rmultiply.
TmArgs ==
    { [m |-> TranslationMatrix(2, 0), affine |-> TRUE],
      [m |-> ScalingMatrix(2, 1), affine |-> TRUE],
      [m |-> RotationMatrix(90), affine |-> TRUE],
      [m |-> MatrixD(2), affine |-> FALSE] }

Init ==
    /\ \E c \in Constructed : M = c.m /\ affine = c.affine
    /\ pc = "ready"
    /\ err = "none"
    /\ is = NewStream
    /\ fed = 0
    /\ nblanks = 0
    /\ calc = [defined |-> TRUE, strict |-> FALSE]
    /\ cmd = "none"
    /\ sub = "none"
    /\ argi = 0
    /\ vals = <<>>
    /\ given = <<>>
    /\ looked = {}
    /\ def = 0
    /\ optional = FALSE
    /\ leadingComma = FALSE
    /\ expr = <<>>
    /\ lastRead = NoRead
    /\ log = <<>>
    /\ lastOp = "construct"
    /\ Mold = M
    /\ tmArg = Identity
    /\ nops = 0

\* ------------------------------------------------------------- the algebra
AlgStep(op, new, tm, aff) ==
    /\ pc = "ready"
    /\ nops < MaxOps
    /\ M' = new
    /\ Mold' = M
    /\ tmArg' = tm
    /\ lastOp' = op
    /\ nops' = nops + 1
    /\ affine' = aff
    /\ UNCHANGED <<pc, parseVars, argVars>>

Translate ==
    \E tx \in AlgVals, ty \in AlgVals :
        AlgStep("translate", translate(M, tx, ty), TranslationMatrix(tx, ty), affine)

Scale ==
    \E sx \in ScaleVals, sy \in ScaleVals :
        AlgStep("scale", scale(M, sx, sy), ScalingMatrix(sx, sy), affine)

Rotate ==
    \E d \in RotDegs :
        AlgStep("rotate", rotate(M, d), RotationMatrix(d), affine)

XSkew ==
    \E d \in SkewDegs :
        AlgStep("xskew", xskew(M, d), SetValues(<<1, TanDeg(d)>>), affine)

YSkew ==
    \E d \in SkewDegs :
        AlgStep("yskew", yskew(M, d), SetValues(<<1, 0, 0, TanDeg(d)>>), affine)

Flip ==
    \E h \in BOOLEAN, a \in AlgVals :
        AlgStep("flip", flip(M, h, a), flip(Identity, h, a), affine)

LMultiply ==
    \E t \in TmArgs :
        AlgStep("lmultiply", lmultiply(M, t.m), t.m, affine /\ t.affine)

RMultiply ==
    \E t \in TmArgs :
        AlgStep("rmultiply", rmultiply(M, t.m), t.m, affine /\ t.affine)

Transpose == AlgStep("transpose", transpose(M), Identity, FALSE)

NextAlg ==
    \/ Translate
    \/ Scale
    \/ Rotate
    \/ XSkew
    \/ YSkew
    \/ Flip
    \/ LMultiply
    \/ RMultiply
    \/ Transpose

\* ------------------------------------------------------------------ parse
\* Matrix::parse(const string&, Calculator&): a fresh stream over the
\* directive string, then parse(istream&) begins with *this = Matrix(1).
ParseStart ==
    /\ pc = "ready"
    /\ \E c \in CalcConfigs : calc' = c
    /\ M' = MatrixD(1)
    /\ pc' = "loop"
    /\ err' = "none"
    /\ is' = NewStream
    /\ fed' = 0
    /\ nblanks' = 0
    /\ cmd' = "none"
    /\ sub' = "none"
    /\ argi' = 0
    /\ vals' = <<>>
    /\ given' = <<>>
    /\ looked' = {}
    /\ def' = 0
    /\ optional' = FALSE
    /\ leadingComma' = FALSE
    /\ expr' = <<>>
    /\ lastRead' = NoRead
    /\ log' = <<>>
    /\ lastOp' = "parse"
    /\ Mold' = Identity
    /\ tmArg' = Identity
    /\ nops' = 0
    /\ affine' = TRUE

Blank == IF nblanks < MaxBlanks THEN {" "} ELSE {}

\* The numerals the environment writes as argument i of directive c: an
\* angle where the model's trigonometry is exact, any value elsewhere.
ArgNumerals(c, i) ==
    IF c = "R" /\ i = 0 THEN {"0", "90", "180", "270"}
    ELSE IF c = "K" THEN {"0", "45", "90"}
    ELSE {"0", "2", "3"}

\* The longest input: MaxInput tokens, or MatrixExtra more while the input
\* is a single M directive (so that all six of its values are reached).
InputLimit ==
    IF pc \in {"arg_ws", "arg_expr"} /\ cmd = "M" /\ log = <<>>
    THEN MaxInput + MatrixExtra
    ELSE MaxInput

\* What the input may continue with.  After a numeral no numeral follows (a
\* numeral token is a whole run of digits).  After F or K one character
\* that is neither H, V, X nor Y stands for all of them.  Past MaxInput
\* tokens no further directive begins.
Offered ==
    {"EOF"} \cup
    IF fed >= InputLimit THEN {}
    ELSE IF pc = "loop" THEN Commands \cup {"Z", ",", "0"} \cup Blank
    ELSE IF pc = "sub" THEN {"H", "V", "X", "Y", "Z"}
    ELSE (IF fed < MaxInput THEN Commands \cup {"Z"} ELSE {}) \cup {","} \cup
         IF Len(expr) >= MaxExpr THEN {}
         ELSE Blank \cup
              IF Len(expr) > 0 /\ expr[Len(expr)] \in Numerals THEN {}
              ELSE ArgNumerals(cmd, argi)

\* The environment: the next character of the directive string, or its end.
Feed ==
    /\ pc \in {"loop", "sub", "arg_ws", "arg_expr"}
    /\ is.la = "?"
    /\ \E c \in Offered :
        /\ is' = [is EXCEPT !.la = c]
        /\ fed' = IF c = "EOF" THEN fed ELSE fed + 1
        /\ nblanks' = IF c = " " THEN nblanks + 1 ELSE nblanks
    /\ UNCHANGED <<M, pc, err, calc, cmd, sub, argi, vals, given, looked,
                   argVars, lastRead, log, histVars>>

\* while (is) fails: return *this.
LoopExit ==
    /\ pc = "loop"
    /\ is.fail
    /\ pc' = "done"
    /\ UNCHANGED <<M, parseVars, histVars>>

\* while (isspace(is.peek())) is.get();   before the command character
SkipBlankCmd ==
    /\ pc = "loop"
    /\ ~is.fail
    /\ is.la # "?"
    /\ IsSpace(Peek(is).c)
    /\ is' = Get(Peek(is).s).s
    /\ UNCHANGED <<M, pc, err, fed, nblanks, calc, cmd, sub, argi, vals, given,
                   looked, argVars, lastRead, log, histVars>>

\* char cmd = is.get(); switch (cmd)
ReadCmd ==
    /\ pc = "loop"
    /\ ~is.fail
    /\ is.la # "?"
    /\ ~IsSpace(Peek(is).c)
    /\ LET g == Get(Peek(is).s)
       IN  /\ is' = g.s
           /\ cmd' = g.c
           /\ sub' = "none"
           /\ argi' = 0
           /\ pc' = IF g.c \in {"T", "S", "R", "M"} THEN "call"
                    ELSE IF g.c \in {"F", "K"} THEN "sub"
                    ELSE "error"
           /\ err' = IF g.c \in Commands THEN err ELSE "command_expected"
    /\ UNCHANGED <<M, fed, nblanks, calc, vals, given, looked, argVars,
                   lastRead, log, histVars>>

\* case 'F', case 'K': char c = is.get(); and its check
ReadSub ==
    /\ pc = "sub"
    /\ is.la # "?"
    /\ LET g == Get(is)
           ok == \/ cmd = "F" /\ g.c \in {"H", "V"}
                 \/ cmd = "K" /\ g.c \in {"X", "Y"}
       IN  /\ is' = g.s
           /\ sub' = g.c
           /\ pc' = IF ok THEN "call" ELSE "error"
           /\ err' = IF ok THEN err
                     ELSE IF cmd = "F" THEN "HV_expected" ELSE "XY_expected"
    /\ UNCHANGED <<M, fed, nblanks, calc, cmd, argi, vals, given, looked,
                   argVars, lastRead, log, histVars>>

\* A call getArgument(is, calc, def, optional, leadingComma): its arguments
\* are evaluated, the getVariable calls of the default among them (in an
\* order the language leaves open), and getArgument is entered.
CallGetArgument ==
    /\ pc = "call"
    /\ LET need == DefaultLookups(cmd, argi)
       IN  \/ /\ \E n \in need : ~GetVariable(calc, n).ok
              /\ \E n \in need : looked' = looked \cup {n}
              /\ pc' = "error"
              /\ err' = "calc"
              /\ UNCHANGED argVars
           \/ /\ \A n \in need : GetVariable(calc, n).ok
              /\ looked' = looked \cup need
              /\ def' = ArgDefault(cmd, argi, vals, calc)
              /\ optional' = ArgOptional(cmd, argi)
              /\ leadingComma' = ArgLeadingComma(cmd, argi)
              /\ expr' = <<>>
              /\ pc' = "arg_ws"
              /\ err' = err
    /\ UNCHANGED <<M, is, fed, nblanks, calc, cmd, sub, argi, vals, given,
                   lastRead, log, histVars>>

\* getArgument: while (isspace(is.peek())) is.get();
ArgSkipBlank ==
    /\ pc = "arg_ws"
    /\ is.la # "?"
    /\ IsSpace(Peek(is).c)
    /\ is' = Get(Peek(is).s).s
    /\ UNCHANGED <<M, pc, err, fed, nblanks, calc, cmd, sub, argi, vals, given,
                   looked, argVars, lastRead, log, histVars>>

\* getArgument: the leading comma.  The first peek is the one that ended the
\* blank loop; the second is made only if !optional && leadingComma.
ArgComma ==
    /\ pc = "arg_ws"
    /\ is.la # "?"
    /\ ~IsSpace(Peek(is).c)
    /\ LET s1 == Peek(is).s
           needComma == ~optional /\ leadingComma
           p2 == Peek(s1)
           s2 == IF needComma THEN p2.s ELSE s1
           p3 == Peek(s2)
       IN  IF needComma /\ p2.c # ","
           THEN /\ pc' = "error"
                /\ err' = "comma_expected"
                /\ is' = p2.s
                /\ optional' = optional
                /\ lastRead' = [idx |-> argi, required |-> TRUE, comma |-> FALSE,
                                text |-> <<>>, result |-> "comma_expected"]
           ELSE /\ pc' = "arg_expr"
                /\ err' = err
                /\ is' = IF p3.c = "," THEN Get(p3.s).s ELSE p3.s
                /\ optional' = IF p3.c = "," THEN FALSE ELSE optional
                /\ lastRead' = [idx |-> argi, required |-> ~optional',
                                comma |-> (p3.c = ","),
                                text |-> <<>>, result |-> "reading"]
    /\ UNCHANGED <<M, fed, nblanks, calc, cmd, sub, argi, vals, given, looked,
                   def, leadingComma, expr, log, histVars>>

\* getArgument: the condition of
\*   while (is && !isupper(is.peek()) && is.peek() != ',')
\* with the stream as its peeks leave it.
ExprLoop(s) ==
    IF s.fail THEN [go |-> FALSE, s |-> s]
    ELSE LET p1 == Peek(s)
         IN  IF IsUpper(p1.c) THEN [go |-> FALSE, s |-> p1.s]
             ELSE LET p2 == Peek(p1.s)
                  IN  [go |-> p2.c # ",", s |-> p2.s]

\* getArgument: expr += is.get();
ArgExprChar ==
    /\ pc = "arg_expr"
    /\ is.la # "?"
    /\ ExprLoop(is).go
    /\ LET g == Get(ExprLoop(is).s)
       IN  /\ expr' = Append(expr, g.c)
           /\ is' = g.s
    /\ UNCHANGED <<M, pc, err, fed, nblanks, calc, cmd, sub, argi, vals, given,
                   looked, def, optional, leadingComma, lastRead, log, histVars>>

\* getArgument: the loop ends; the default, an exception, or calc.eval(expr).
ArgFinish ==
    /\ pc = "arg_expr"
    /\ is.la # "?"
    /\ ~ExprLoop(is).go
    /\ is' = ExprLoop(is).s
    /\ LET outcome ==
               IF Len(expr) = 0
               THEN IF optional THEN [res |-> "default", val |-> def]
                    ELSE [res |-> "parameter_expected", val |-> 0]
               ELSE IF Eval(expr).ok THEN [res |-> "value", val |-> Eval(expr).val]
                    ELSE [res |-> "calc", val |-> 0]
           returned == outcome.res \in {"default", "value"}
       IN  /\ lastRead' = [lastRead EXCEPT !.text = expr, !.result = outcome.res]
           /\ IF returned
              THEN /\ vals' = Append(vals, outcome.val)
                   /\ given' = Append(given, Len(expr) # 0)
                   /\ argi' = argi + 1
                   /\ pc' = IF argi + 1 < NumArgs(cmd) THEN "call" ELSE "apply"
                   /\ err' = err
              ELSE /\ pc' = "error"
                   /\ err' = outcome.res
                   /\ UNCHANGED <<vals, given, argi>>
    /\ UNCHANGED <<M, fed, nblanks, calc, cmd, sub, looked, argVars, log,
                   histVars>>

\* The rest of a case of the switch: the directive is applied to *this.
ApplyDirective ==
    /\ pc = "apply"
    /\ IF cmd = "K" /\ CosIsZero(vals[1])
       THEN /\ pc' = "error"
            /\ err' = "illegal_skew"
            /\ UNCHANGED <<M, argi, vals, given, looked, log>>
       ELSE /\ M' = CASE cmd = "T" -> translate(M, vals[1], vals[2])
                      [] cmd = "S" -> scale(M, vals[1], vals[2])
                      [] cmd = "R" ->
                           translate(rotate(translate(M, -vals[2], -vals[3]),
                                            vals[1]),
                                     vals[2], vals[3])
                      [] cmd = "F" -> flip(M, sub = "H", vals[1])
                      [] cmd = "K" -> IF sub = "X" THEN xskew(M, vals[1])
                                      ELSE yskew(M, vals[1])
                      [] cmd = "M" -> rmultiply(M, SetValues(vals \o <<0, 0, 1>>))
            /\ log' = Append(log, [cmd |-> cmd, sub |-> sub, vals |-> vals,
                                   given |-> given, looked |-> looked])
            /\ vals' = <<>>
            /\ given' = <<>>
            /\ looked' = {}
            /\ argi' = 0
            /\ pc' = "loop"
            /\ err' = err
    /\ UNCHANGED <<is, fed, nblanks, calc, cmd, sub, argVars, lastRead, histVars>>

NextParse ==
    \/ ParseStart
    \/ Feed
    \/ LoopExit
    \/ SkipBlankCmd
    \/ ReadCmd
    \/ ReadSub
    \/ CallGetArgument
    \/ ArgSkipBlank
    \/ ArgComma
    \/ ArgExprChar
    \/ ArgFinish
    \/ ApplyDirective

Next == NextAlg \/ NextParse

\* Constructed matrices under the algebra operations and parse.
Spec == Init /\ [][Next]_vars

\* Constructed matrices under the algebra operations alone.
SpecAlg == Init /\ [][NextAlg]_vars

\* parse alone, called on a constructed matrix.
SpecParse == Init /\ [][NextParse]_vars

\* ------------------------------------------- definitions the properties use
\* The points the properties apply matrices to.
Points == { <<0, 0>>, <<1, 0>>, <<0, 1>>, <<2, 3>> }

IsAffine(m) == ThirdRow(m) = <<0, 0, 1>>

\* The elementary transform a directive stands for (the table of directives).
Elem(d) ==
    CASE d.cmd = "T" -> TranslationMatrix(d.vals[1], d.vals[2])
      [] d.cmd = "S" -> ScalingMatrix(d.vals[1], d.vals[2])
      [] d.cmd = "R" ->
           MatMul(TranslationMatrix(d.vals[2], d.vals[3]),
                  MatMul(RotationMatrix(d.vals[1]),
                         TranslationMatrix(-d.vals[2], -d.vals[3])))
      [] d.cmd = "F" ->
           IF d.sub = "H" THEN SetValues(<<1, 0, 0, 0, -1, 2 * d.vals[1]>>)
           ELSE SetValues(<<-1, 0, 2 * d.vals[1], 0, 1, 0>>)
      [] d.cmd = "K" ->
           IF d.sub = "X" THEN SetValues(<<1, TanDeg(d.vals[1])>>)
           ELSE SetValues(<<1, 0, 0, TanDeg(d.vals[1])>>)
      [] d.cmd = "M" -> SetValues(d.vals \o <<0, 0, 1>>)

\* The composition of the directives of l, the first applied to a point
\* first: Elem(l[n]) * ... * Elem(l[1]).
RECURSIVE Composition(_)
Composition(l) ==
    IF l = <<>> THEN Identity
    ELSE MatMul(Elem(l[Len(l)]), Composition(SubSeq(l, 1, Len(l) - 1)))

\* The characters of an expression text that came from the input.
InputText(text) == SelectSeq(text, LAMBDA t : t # "EOF")

ReadEnded == lastRead.result \notin {"none", "reading"}

AllLooked == {"ux", "w", "uy", "h"}

\* ---------------------------------------------------------------- claim C1
\* C1: after rightCompose(tm) (rmultiply), and after each of the mutators
\* translate, scale, rotate, xskew, yskew and flip with its elementary
\* transform tm, the new matrix applied to a point p equals tm applied to p
\* first and the old matrix applied to the result (new = old * tm).
C1_RightComposeAppliesArgumentFirst ==
    (/\ lastOp \in {"rmultiply", "translate", "scale", "rotate",
                    "xskew", "yskew", "flip"}
     /\ IsAffine(Mold) /\ IsAffine(tmArg))
    => \A p \in Points : Apply(M, p) = Apply(Mold, Apply(tmArg, p))

\* ---------------------------------------------------------------- claim C2
\* C2: the matrix parsed from the single directive "R a,cx,cy" maps the
\* point (cx,cy) to itself, and for a = 90 it maps (cx+1,cy) to (cx,cy+1).
C2_RotationAboutCenter ==
    (/\ pc = "done" /\ Len(log) = 1 /\ log[1].cmd = "R"
     /\ log[1].given = <<TRUE, TRUE, TRUE>>)
    => LET a == log[1].vals[1]
           cx == log[1].vals[2]
           cy == log[1].vals[3]
       IN  /\ Apply(M, <<cx, cy>>) = <<cx, cy>>
           /\ a = 90 => Apply(M, <<cx + 1, cy>>) = <<cx, cy + 1>>

C2_Witness ==
    /\ pc = "done" /\ Len(log) = 1 /\ log[1].cmd = "R"
    /\ log[1].given = <<TRUE, TRUE, TRUE>>
    /\ log[1].vals = <<90, 2, 3>>

\* ---------------------------------------------------------------- claim C3
\* The matrix "M" stands for when only its first k values v are given: the
\* other of the six cells hold 1 at index 4 and 0 elsewhere, the third row
\* is (0,0,1).
ExplicitMatrix(v, k) ==
    [i \in Idx |-> [j \in Idx |->
        LET n == 3 * i + j
        IN  IF n >= 6 THEN (IF n = 8 THEN 1 ELSE 0)
            ELSE IF n < k THEN v[n + 1]
            ELSE IF n = 0 \/ n = 4 THEN 1 ELSE 0]]

\* C3: omitted optional arguments take their defaults: "T tx" is
\* translate(tx,0), "S sx" is scale(sx,sx), "M" with its first k values is
\* the matrix of those values and the pattern defaults; "T tx,ty" maps (0,0)
\* to (tx,ty) and "S sx" maps (1,1) to (sx,sx).
C3_DefaultsOfOmittedArguments ==
    (pc = "done" /\ Len(log) = 1)
    => LET d == log[1]
           v == d.vals
           g == d.given
       IN  /\ (d.cmd = "T" /\ g = <<TRUE, FALSE>>)
                => /\ M = translate(Identity, v[1], 0)
                   /\ Apply(M, <<0, 0>>) = <<v[1], 0>>
           /\ (d.cmd = "T" /\ g = <<TRUE, TRUE>>)
                => Apply(M, <<0, 0>>) = <<v[1], v[2]>>
           /\ (d.cmd = "S" /\ g = <<TRUE, FALSE>>)
                => /\ M = scale(Identity, v[1], v[1])
                   /\ Apply(M, <<1, 1>>) = <<v[1], v[1]>>
           /\ d.cmd = "M"
                => \E k \in 1..6 :
                      /\ g = [i \in 1..6 |-> i <= k]
                      /\ M = ExplicitMatrix(v, k)

C3_Witness ==
    /\ pc = "done" /\ Len(log) = 1 /\ log[1].cmd = "M"
    /\ log[1].given = <<TRUE, TRUE, TRUE, FALSE, FALSE, FALSE>>
    /\ M = ExplicitMatrix(<<2, 3, 2>>, 3)

\* ---------------------------------------------------------------- claim C4
\* C4: parse raises a ParseError and goes no further when the command
\* character is none of T, S, R, F, K, M; when F is not followed by H or V;
\* when K is not followed by X or Y; when a required argument (one made
\* required by a consumed comma included) has no expression text in the
\* input; and when the angle of KX or KY has a cosine of 0, the skew not
\* being applied.
C4_ParseErrorsRaised ==
    /\ cmd \notin (Commands \cup {"none"})
         => pc = "error" /\ err = "command_expected"
    /\ (cmd = "F" /\ sub \notin {"H", "V", "none"})
         => pc = "error" /\ err = "HV_expected"
    /\ (cmd = "K" /\ sub \notin {"X", "Y", "none"})
         => pc = "error" /\ err = "XY_expected"
    /\ (ReadEnded /\ lastRead.required /\ InputText(lastRead.text) = <<>>)
         => pc = "error" /\ err = "parameter_expected"
    /\ (cmd = "K" /\ Len(vals) = 1 /\ CosIsZero(vals[1]) /\ pc # "apply")
         => pc = "error" /\ err = "illegal_skew" /\ M = Composition(log)

\* ---------------------------------------------------------------- claim C5
\* C5: reaching the end of the input never raises an error: parse is never
\* ended by the error for a missing command character with the end of the
\* input in the command's place (the empty string and a string of blanks
\* included), and a parse that returns without a directive returns the
\* identity.
C5_EndOfInputNeverRaises ==
    /\ ~(pc = "error" /\ err = "command_expected" /\ cmd = "EOF")
    /\ (pc = "done" /\ log = <<>>) => M = Identity

C7_PartialTransformDiscarded ==
    (pc = "error" /\ Len(log) >= 1 /\ Composition(log) # Identity)
    => M # Composition(log)

\* C7 as amended: when parse raises an error after k >= 0 directives have
\* been applied, the matrix parse was called on holds the composition of
\* those k directives (the identity for k = 0).
C7_PartialTransformRetained ==
    pc = "error" => M = Composition(log)

C7_Witness ==
    /\ pc = "error" /\ Len(log) = 2
    /\ M # Identity
    /\ M # MatMul(Elem(log[1]), Elem(log[2]))

\* ---------------------------------------------------------------- claim C8
\* C8 as stated: every matrix built by a constructor and any sequence of
\* operations has the third row (0,0,1).
C8_ThirdRowAlways == ThirdRow(M) = <<0, 0, 1>>

\* C8 as amended: every matrix built by a constructor other than
\* diagonal(d) with d # 1, or by parse, and then by any sequence of
\* translate, scale, rotate, xskew, yskew, flip, leftCompose and
\* rightCompose (with such a matrix as argument) but not transpose, has the
\* third row (0,0,1), and on it equality of rows 0 and 1 with such a matrix
\* is equality of all nine cells.
C8_ThirdRowOfAffineBuilt ==
    affine =>
        /\ ThirdRow(M) = <<0, 0, 1>>
        /\ \A c \in Constructed : c.affine => (Equals(M, c.m) <=> M = c.m)

C8_Witness ==
    /\ affine /\ nops = 2 /\ lastOp = "lmultiply"
    /\ M # Mold /\ M # Identity

\* ---------------------------------------------------------------- claim C9
\* C9: leftCompose(tm) (lmultiply) sets M to tm * M: the new cell (i,j) is
\* the sum over k of tm[i][k] * Mold[k][j].
C9_LeftComposeIsTmTimesM ==
    lastOp = "lmultiply" => M = MatMul(tmArg, Mold)

\* --------------------------------------------------------------- claim C10
\* C10 as stated: an R directive with explicit cx and cy performs no
\* getVariable call.
C10_NoLookupWhenExplicit ==
    \A i \in 1..Len(log) :
        (log[i].cmd = "R" /\ log[i].given = <<TRUE, TRUE, TRUE>>)
        => log[i].looked = {}

\* C10 as amended: the R directive looks up ux and w before it reads cx and
\* uy and h before it reads cy, whether or not the argument is given; the
\* values enter the result only for an omitted argument; and with a
\* calculator whose getVariable fails on an undefined name no R directive
\* is applied.
C10_LookupsPrecedeEachRead ==
    /\ (cmd = "R" /\ argi = 1 /\ pc \in {"arg_ws", "arg_expr"})
         => looked = {"ux", "w"}
    /\ (cmd = "R" /\ argi = 2 /\ pc \in {"arg_ws", "arg_expr"})
         => looked = AllLooked
    /\ \A i \in 1..Len(log) :
          log[i].cmd = "R" =>
             /\ log[i].looked = AllLooked
             /\ calc.defined \/ ~calc.strict
             /\ ~log[i].given[2] =>
                  log[i].vals[2] = IF calc.defined THEN 2 ELSE 0
             /\ ~log[i].given[3] =>
                  log[i].vals[3] = IF calc.defined THEN 4 ELSE 0

C10_Witness ==
    \E i \in 1..Len(log) :
        /\ log[i].cmd = "R" /\ log[i].given = <<TRUE, TRUE, TRUE>>
        /\ log[i].looked = AllLooked

=============================================================================
